---- MODULE Spec2Model ----
(***************************************************************************)
(* SSHRemoteControl: the multi-target run of an Activity                   *)
(* (lib/Activity.py, Activity.run) over the device classes of              *)
(* lib/Devices.py (Device, DeviceCiscoIOS, DeviceCiscoWLC, DeviceLinux).   *)
(*                                                                         *)
(* The run is one sequential program.  pc is the place of Activity.run,    *)
(* frame/step the place inside the device method it has called.  The       *)
(* remote shell is a buffer rx of received chunks, one chunk per           *)
(* recv(_bufferSize); what the remote sends arrives during connect and     *)
(* during the time.sleep() calls.  A chunk is "txt" (text without the      *)
(* marker the next test looks for), one of the markers, or "bad" (bytes    *)
(* that do not decode as UTF-8).                                           *)
(***************************************************************************)
EXTENDS Integers, Sequences, FiniteSets, TLC

(* ---------------------------------------------------------------- bounds *)
MaxTargets == 2
MaxCommands == 1
MaxChunks == 2
MaxListCommands == 2
MaxText == 2

VARIABLES
    taskFile,    \* the task file runTask is given, writeToJSON writes
    original,    \* the Activity writeToJSON was called on
    first,       \* what the first of two calls of run() left
    codec,       \* arguments and results of the xor_*_string functions
    activity,    \* the Activity fields run() reads and never writes
    pc,          \* place in Activity.run
    idx,         \* position of the for loop in activity.targets
    logFile,     \* Activity.logFile
    outputFile,  \* Activity.outputFile
    files,       \* every file object open() returned: id -> "open" | "closed"
    log,         \* lines written with _writeLogFile, in order
    out,         \* text written to output sinks, in order, with its sink
    aDevice,     \* the Device object of the current turn
    transport,   \* per turn: the SSH transport of that turn's device
    hist,        \* per turn: what each device method returned
    frame,       \* device method being executed, or "return" / "raise"
    step,        \* place inside that method
    ret,         \* value the method returned
    exc,         \* exception in flight
    rx,          \* chunks buffered in RemoteShell, oldest first
    data,        \* the local variable data of the method
    result,      \* the local variable result of DeviceCiscoIOS.superuser
    cmdIdx,      \* position of Device.run's for loop in commands
    lastOp,      \* last operation on the channel: send, sleep, drain
    sent,        \* the texts handed to RemoteShell.send in this turn, in order
    lastSend,    \* what the last RemoteShell.send did: ok, zero, error
    drained      \* the chunks decoded by the last receive loop whose data a
                 \* prompt test reads

actVars == <<activity>>
runVars == <<pc, idx>>
sinkVars == <<logFile, outputFile, files, log, out>>
devVars == <<aDevice, transport, hist, frame, step, ret, exc>>
chanVars == <<rx, data, result, cmdIdx, lastOp, sent, lastSend, drained>>
fileVars == <<taskFile, original, first, codec>>
vars == <<taskFile, original, first, codec, activity, pc, idx, logFile, outputFile, files, log, out, aDevice,
          transport, hist, frame, step, ret, exc, rx, data, result, cmdIdx,
          lastOp, sent, lastSend, drained>>

(* ------------------------------------------------------------- constants *)
listOfDeviceTypes == {"ciscoios", "ciscowlc", "linux"}

DeviceTypes == listOfDeviceTypes \cup {""}

Methods == {"connect", "login", "superuser", "run", "logout"}

Unbound == "UNBOUND"

(* File handles: 0 is the process stream (sys.stderr for logFile,          *)
(* sys.stdout for outputFile), k > 0 is files[k].                          *)
StdErr == 0

StdOut == 0

(* A directory is a path or unset (None, or the empty string: both falsy). *)
Dirs == {"", "dir"}

(* The Activity as constructed: the class attributes of lines 63-78.  A    *)
(* str attribute is the sequence of its code points; None and "" are both  *)
(* "" for the directories and the device type, which are only tested for   *)
(* truth.                                                                  *)
Activity ==
    [name |-> << >>, user |-> << >>, password |-> << >>,
     superuserPassword |-> << >>, superuserNeeded |-> FALSE,
     targets |-> << >>, commands |-> << >>, outputDir |-> "", logDir |-> "",
     singleFile |-> FALSE, deviceType |-> ""]

(* The validated activities: check() passed, so targets and commands are   *)
(* not empty and the device type is known or empty.  Hostnames are 1..n,   *)
(* commands 1..m.                                                          *)
ActivitiesOf(maxTargets, maxCommands) ==
    { [deviceType |-> t, superuserNeeded |-> s, singleFile |-> f,
       outputDir |-> o, logDir |-> l,
       targets |-> [i \in 1..n |-> i], commands |-> [j \in 1..m |-> j]] :
      t \in DeviceTypes, s \in BOOLEAN, f \in BOOLEAN, o \in Dirs,
      l \in Dirs, n \in 1..maxTargets, m \in 1..maxCommands }

Activities == ActivitiesOf(MaxTargets, MaxCommands)

(* The activities with one target and a longer list of commands. *)
ListActivities == ActivitiesOf(1, MaxListCommands)

NoHist ==
    [connect |-> "none", login |-> "none", superuser |-> "none",
     run |-> "none", logout |-> "none"]

(* No task file, no written Activity, no call of the codec. *)
NoFile == "none"

NoCodec == "none"

NoFiles ==
    /\ taskFile = NoFile
    /\ original = "none"
    /\ codec = NoCodec

(* run() was not called a second time. *)
NoFirst == [ended |-> "none", log |-> << >>, files |-> << >>, hist |-> << >>]

(* The state of an Activity no run() has touched, and of the locals of a   *)
(* run() that has not started; p is where the program stands.              *)
NotRun(p) ==
    /\ first = NoFirst
    /\ pc = p
    /\ idx = 0
    /\ logFile = StdErr
    /\ outputFile = StdOut
    /\ files = << >>
    /\ log = << >>
    /\ out = << >>
    /\ aDevice = [class |-> "none", hostname |-> 0]
    /\ transport = [i \in 1..Len(activity.targets) |-> "none"]
    /\ hist = [i \in 1..Len(activity.targets) |-> NoHist]
    /\ frame = "none"
    /\ step = 0
    /\ ret = "none"
    /\ exc = "none"
    /\ rx = << >>
    /\ data = Unbound
    /\ result = FALSE
    /\ cmdIdx = 0
    /\ lastOp = "none"
    /\ sent = << >>
    /\ lastSend = "none"
    /\ drained = << >>

InitOf(activities) ==
    /\ NoFiles
    /\ activity \in activities
    /\ NotRun("start")

Init == InitOf(Activities)

InitList == InitOf(ListActivities)

(* ------------------------------------------------------------ the sinks *)
(* The turn of the for loop the run is in, 0 outside the loop body. *)
Turn ==
    IF pc \in {"start", "openShared", "loop", "done", "aborted", "interrupted"}
    THEN 0
    ELSE idx

(* A log line: its message and the hostname in it (0 when the message      *)
(* names none), and the turn that wrote it.                                *)
LogLine(msg, hostname) == [msg |-> msg, host |-> hostname, turn |-> Turn]

(* Activity._writeLogFile: one line, to whatever logFile is. *)
_writeLogFile(lines, msg, hostname) == Append(lines, LogLine(msg, hostname))

(* Activity._writeOutputFile and the outfile.write of Device.run: text     *)
(* goes to the sink outputFile names at that moment.                       *)
OutText(sink, kind, hostname, cmd) ==
    [sink |-> sink, kind |-> kind, host |-> hostname, cmd |-> cmd, turn |-> Turn]

OutItem(kind, hostname, cmd) == OutText(outputFile, kind, hostname, cmd)

NewFile(kind, turn) == [kind |-> kind, turn |-> turn, state |-> "open", closes |-> 0]

(* file.close(): closing twice is allowed by Python and counted here. *)
CloseFile(fs, h) ==
    IF h \in DOMAIN fs
    THEN [fs EXCEPT ![h] = [@ EXCEPT !.state = "closed", !.closes = @ + 1]]
    ELSE fs

(* Mutant of _openLogFile: a log file this object opened before is kept. *)
_openLogFileOnce(ok) ==
    IF activity.logDir # ""
    THEN IF logFile # StdErr
         THEN <<files, logFile, "none">>
         ELSE IF ok
              THEN <<Append(files, NewFile("log", 0)), Len(files) + 1, "none">>
              ELSE <<files, logFile, "IOError">>
    ELSE <<files, StdErr, "none">>

(* Activity._openLogFile.  ok: whether open() succeeds.  Yields the new    *)
(* <<files, logFile, raised>>.                                             *)
_openLogFile(ok) ==
    IF activity.logDir # ""
    THEN IF ok
         THEN <<Append(files, NewFile("log", 0)), Len(files) + 1, "none">>
         ELSE <<files, logFile, "IOError">>
    ELSE <<files, StdErr, "none">>

(* Activity._openOutputFile, on the file list fs.  Yields the new          *)
(* <<files, outputFile, raised>>.                                          *)
_openOutputFile(fs, turn, ok) ==
    IF activity.outputDir # ""
    THEN IF ok
         THEN <<Append(fs, NewFile("out", turn)), Len(fs) + 1, "none">>
         ELSE <<fs, outputFile, "IOError">>
    ELSE <<fs, StdOut, "none">>

(* Mutant of _closeLogFile: the log file is left open. *)
_closeLogFileNever(fs) == fs

(* Activity._closeLogFile / _closeOutputFile: only with a directory set. *)
_closeLogFile(fs) == IF activity.logDir # "" THEN CloseFile(fs, logFile) ELSE fs

(* Mutant of _closeOutputFile: the file is left open. *)
_closeOutputFileNever(fs) == fs

_closeOutputFile(fs) ==
    IF activity.outputDir # "" THEN CloseFile(fs, outputFile) ELSE fs

(* ------------------------------------------------------- Devices.createDevice *)
(* str.lower() on the tags and attribute values of the model. *)
Lower(text) ==
    CASE text = "LINUX" -> "linux"
      [] text = "CiscoIOS" -> "ciscoios"
      [] text = "Yes" -> "yes"
      [] text = "No" -> "no"
      [] text = ".JSON" -> ".json"
      [] OTHER -> text

createDevice(hostname, typeClass) ==
    [class |-> CASE Lower(typeClass) = "ciscoios" -> "DeviceCiscoIOS"
                 [] Lower(typeClass) = "ciscowlc" -> "DeviceCiscoWLC"
                 [] Lower(typeClass) = "linux" -> "DeviceLinux"
                 [] OTHER -> "Device",
     hostname |-> hostname]

(* ---------------------------------------------------------- Activity.run *)
Hostname == activity.targets[idx]

(* Mutant of Not: "is None" in place of "not". *)
NotIsNone(v) == v = "None"

(* "if not aDevice.method()": the value is False or None. *)
Not(v) == v \in {"False", "None"}

(* Mutant of Continue: the failure branch falls through to the last       *)
(* statement of the loop body.                                             *)
ContinueFallsThrough == "finished"

(* The continue statements of lines 357, 363 and 367 go to the next        *)
(* target.                                                                 *)
Continue == "loop"

(* Mutant of SuperuserRequested: superuser is called for every activity. *)
SuperuserAlways == TRUE

(* Line 364: "if self.superuserNeeded". *)
SuperuserRequested == activity.superuserNeeded

(* A call of a method of aDevice from run. *)
Call(m) ==
    /\ frame' = m
    /\ step' = 0
    /\ ret' = "none"
    /\ data' = Unbound
    /\ result' = FALSE
    /\ cmdIdx' = 0
    /\ lastSend' = "none"
    /\ drained' = << >>

(* The turn is over: run() never uses this turn's device again, and the    *)
(* next turn replaces it.                                                  *)
EndTurn(next) ==
    /\ pc' = next
    /\ frame' = "none"
    /\ step' = 0
    /\ ret' = "none"
    /\ data' = Unbound
    /\ result' = FALSE
    /\ cmdIdx' = 0
    /\ rx' = << >>
    /\ sent' = << >>
    /\ lastOp' = "none"
    /\ lastSend' = "none"
    /\ drained' = << >>

(* Lines 346-348: the file names and the log sink. *)
RunStart ==
    /\ pc = "start"
    /\ \E ok \in BOOLEAN :
         LET o == _openLogFile(ok) IN
         /\ files' = o[1]
         /\ logFile' = o[2]
         /\ exc' = o[3]
         /\ pc' = IF o[3] = "none" THEN "openShared" ELSE "aborted"
    /\ UNCHANGED <<taskFile, original, first, codec, activity, idx, outputFile, log, out, aDevice, transport,
                   hist, frame, step, ret>>
    /\ UNCHANGED chanVars

(* Lines 349-350: the shared output sink. *)
RunOpenShared ==
    /\ pc = "openShared"
    /\ \E ok \in BOOLEAN :
         LET o == IF activity.singleFile
                  THEN _openOutputFile(files, 0, ok)
                  ELSE <<files, outputFile, "none">> IN
         /\ files' = o[1]
         /\ outputFile' = o[2]
         /\ exc' = o[3]
         /\ pc' = IF o[3] = "none" THEN "loop" ELSE "aborted"
    /\ UNCHANGED <<taskFile, original, first, codec, activity, idx, logFile, log, out, aDevice, transport,
                   hist, frame, step, ret>>
    /\ UNCHANGED chanVars

(* Lines 351-353: the next target, its device, the call of connect. *)
RunNextTarget ==
    /\ pc = "loop"
    /\ idx < Len(activity.targets)
    /\ idx' = idx + 1
    /\ aDevice' = createDevice(activity.targets[idx + 1], activity.deviceType)
    /\ pc' = "connect"
    /\ Call("connect")
    /\ rx' = << >>
    /\ lastOp' = "none"
    /\ sent' = << >>
    /\ UNCHANGED <<taskFile, original, first, codec, activity, transport, hist, exc>>
    /\ UNCHANGED sinkVars

(* Lines 353-359: the result of connect; on success the call of login. *)
RunConnected ==
    /\ pc = "connect"
    /\ frame = "return"
    /\ IF Not(ret)
       THEN /\ log' = _writeLogFile(log, "Unable to connect to ", Hostname)
            /\ EndTurn(Continue)
       ELSE /\ log' = _writeLogFile(log, "Connected to ", Hostname)
            /\ pc' = "login"
            /\ Call("login")
            /\ UNCHANGED <<rx, lastOp, sent>>
    /\ UNCHANGED <<taskFile, original, first, codec, activity, idx, logFile, outputFile, files, out, aDevice,
                   transport, hist, exc>>

(* Lines 359-365: the result of login; then the call of superuser, if the  *)
(* activity needs it.                                                      *)
RunLoggedIn ==
    /\ pc = "login"
    /\ frame = "return"
    /\ IF Not(ret)
       THEN /\ log' = _writeLogFile(log, "Unable to login to ", Hostname)
            /\ EndTurn(Continue)
       ELSE /\ log' = log
            /\ IF SuperuserRequested
               THEN pc' = "superuser" /\ Call("superuser")
               ELSE /\ pc' = "openOutput"
                    /\ UNCHANGED <<frame, step, ret, data, result, cmdIdx,
                                   lastSend, drained>>
            /\ UNCHANGED <<rx, lastOp, sent>>
    /\ UNCHANGED <<taskFile, original, first, codec, activity, idx, logFile, outputFile, files, out, aDevice,
                   transport, hist, exc>>

(* Lines 365-369: the result of superuser. *)
RunSuperuser ==
    /\ pc = "superuser"
    /\ frame = "return"
    /\ IF Not(ret)
       THEN /\ log' = _writeLogFile(log, "Unable to superuser at ", Hostname)
            /\ EndTurn(Continue)
       ELSE /\ log' = _writeLogFile(log, "Superuser at ", Hostname)
            /\ pc' = "openOutput"
            /\ UNCHANGED <<frame, step, ret>>
            /\ UNCHANGED chanVars
    /\ UNCHANGED <<taskFile, original, first, codec, activity, idx, logFile, outputFile, files, out, aDevice,
                   transport, hist, exc>>

(* Lines 370-374: the per-target sink, the opening delimiter, the call of  *)
(* Device.run.                                                             *)
RunOpenOutput ==
    /\ pc = "openOutput"
    /\ \E ok \in BOOLEAN :
         LET o == IF ~activity.singleFile
                  THEN _openOutputFile(files, idx, ok)
                  ELSE <<files, outputFile, "none">> IN
         /\ files' = o[1]
         /\ outputFile' = o[2]
         /\ exc' = o[3]
         /\ IF o[3] = "none"
            THEN /\ out' = Append(out, OutText(o[2], "open", Hostname, 0))
                 /\ pc' = "run"
                 /\ Call("run")
            ELSE /\ pc' = "aborted"
                 /\ UNCHANGED <<out, frame, step, ret, data, result, cmdIdx,
                                lastSend, drained>>
    /\ UNCHANGED <<taskFile, original, first, codec, activity, idx, logFile, log, aDevice, transport, hist,
                   rx, lastOp, sent>>

(* Lines 374-376: the result of Device.run, the call of logout. *)
RunCommandsDone ==
    /\ pc = "run"
    /\ frame = "return"
    /\ log' = IF Not(ret)
              THEN _writeLogFile(log, "ERROR while running the commmands", 0)
              ELSE log
    /\ pc' = "logout"
    /\ Call("logout")
    /\ UNCHANGED <<taskFile, original, first, codec, activity, idx, logFile, outputFile, files, out, aDevice,
                   transport, hist, exc, rx, lastOp, sent>>

(* Lines 376-381: the result of logout, the closing delimiter, the         *)
(* per-target sink closed.                                                 *)
RunLoggedOut ==
    /\ pc = "logout"
    /\ frame = "return"
    /\ log' = IF Not(ret)
              THEN _writeLogFile(log, "ERROR while logging out", 0)
              ELSE log
    /\ out' = Append(out, OutItem("close", 0, 0))
    /\ files' = IF ~activity.singleFile THEN _closeOutputFile(files) ELSE files
    /\ pc' = "finished"
    /\ UNCHANGED <<taskFile, original, first, codec, activity, idx, logFile, outputFile>>
    /\ UNCHANGED devVars
    /\ UNCHANGED chanVars

(* Mutant of RunFinished: the turn ends without its log line. *)
RunFinishedSilent ==
    /\ pc = "finished"
    /\ EndTurn("loop")
    /\ UNCHANGED <<taskFile, original, first, codec, activity, idx, logFile, outputFile, files, out, aDevice,
                   transport, hist, exc, log>>

(* Line 382: the last statement of the loop body. *)
RunFinished ==
    /\ pc = "finished"
    /\ log' = _writeLogFile(log, "Finished commands at ", Hostname)
    /\ EndTurn("loop")
    /\ UNCHANGED <<taskFile, original, first, codec, activity, idx, logFile, outputFile, files, out, aDevice,
                   transport, hist, exc>>

(* Lines 383-387: the end of the run. *)
RunFinish ==
    /\ pc = "loop"
    /\ idx = Len(activity.targets)
    /\ log' = _writeLogFile(_writeLogFile(log, "Finished activity", 0), "END", 0)
    /\ files' = _closeLogFile(IF activity.singleFile
                              THEN _closeOutputFile(files)
                              ELSE files)
    /\ pc' = "done"
    /\ UNCHANGED <<taskFile, original, first, codec, activity, idx, logFile, outputFile, out>>
    /\ UNCHANGED devVars
    /\ UNCHANGED chanVars

(* run() has no try: what a device method raises leaves run(). *)
RunRaise ==
    /\ pc \in {"connect", "login", "superuser", "run", "logout"}
    /\ frame = "raise"
    /\ pc' = "aborted"
    /\ UNCHANGED <<taskFile, original, first, codec, activity, idx>>
    /\ UNCHANGED sinkVars
    /\ UNCHANGED devVars
    /\ UNCHANGED chanVars

(* run() is executing: between its call and its return or its exception. *)
Running ==
    pc \in {"start", "openShared", "loop", "connect", "login", "superuser",
            "openOutput", "run", "logout", "finished"}

(* A KeyboardInterrupt arrives while run() executes.  No except clause of   *)
(* Activity.py or Devices.py names it: it leaves the device method and     *)
(* run(), whose frames and device are dropped, and runTask (lines 113-118)  *)
(* catches it and returns 99.  Nothing on that way closes a file or the    *)
(* transport.  frame tells whether it was raised inside the loop body.     *)
Interrupt ==
    /\ Running
    /\ exc' = "KeyboardInterrupt"
    /\ pc' = "interrupted"
    /\ frame' = IF Turn = 0 THEN "none" ELSE "raise"
    /\ step' = 0
    /\ ret' = "none"
    /\ data' = Unbound
    /\ result' = FALSE
    /\ cmdIdx' = 0
    /\ rx' = << >>
    /\ sent' = << >>
    /\ lastOp' = "none"
    /\ lastSend' = "none"
    /\ drained' = << >>
    /\ UNCHANGED <<taskFile, original, first, codec, activity, idx, aDevice, transport, hist>>
    /\ UNCHANGED sinkVars

(* What runTask returns, lines 86-118; -1 while it executes or when        *)
(* another exception leaves it.                                            *)
ExitCode ==
    CASE pc = "done" -> 0
      [] pc = "interrupted" -> 99
      [] pc = "return9" -> 9
      [] pc = "return11" -> 11
      [] pc = "return12" -> 12
      [] pc = "return13" -> 13
      [] OTHER -> -1

(* ------------------------------------------------- the channel, RemoteShell *)
SendOutcomes == {"ok", "zero", "error"}

(* What can arrive while the program waits: up to the room left in rx. *)
Replies(alphabet) ==
    UNION { [1..k -> alphabet] : k \in 0..(MaxChunks - Len(rx)) }

(* Position of the first chunk of buf that does not decode, 0 if none. *)
FirstBad(buf) ==
    IF \E i \in DOMAIN buf : buf[i] = "bad"
    THEN CHOOSE i \in DOMAIN buf :
            buf[i] = "bad" /\ \A j \in 1..(i - 1) : buf[j] # "bad"
    ELSE 0

(* str.find(marker) != -1 on the text of one chunk. *)
Found(text, marker) == text = marker

Return(m, v) ==
    /\ frame' = "return"
    /\ ret' = v
    /\ step' = 0
    /\ exc' = exc
    /\ hist' = [hist EXCEPT ![idx][m] = v]

Raise(m, e) ==
    /\ frame' = "raise"
    /\ exc' = e
    /\ step' = 0
    /\ ret' = ret
    /\ hist' = [hist EXCEPT ![idx][m] = "raise"]

Goto(n) ==
    /\ step' = n
    /\ UNCHANGED <<frame, ret, exc, hist>>

(* An entry of sent: the text, and for a command of the activity which. *)
SentItem(text, cmd) == [text |-> text, cmd |-> cmd]

(* RemoteShell.send(text) inside the try of method m.  The channel accepts *)
(* the text, accepts nothing (returns 0) or raises socket.error, which the *)
(* except clause of m catches (the method returns False) or not.  The     *)
(* return value is not looked at.                                          *)
Send(m, text, caught, next) ==
    /\ \E o \in SendOutcomes :
         /\ lastSend' = o
         /\ IF o = "error"
            THEN IF caught THEN Return(m, "False") ELSE Raise(m, "SocketError")
            ELSE Goto(next)
    /\ sent' = Append(sent, SentItem(text, 0))
    /\ lastOp' = "send"
    /\ UNCHANGED <<rx, transport, drained>>

(* Mutant of Sleep: the method does not wait, and nothing arrives. *)
NoSleep(alphabet, next) ==
    /\ rx' = rx
    /\ lastOp' = lastOp
    /\ lastSend' = "none"
    /\ Goto(next)
    /\ UNCHANGED <<transport, sent, drained>>

(* time.sleep(): the remote's reply arrives. *)
Sleep(alphabet, next) ==
    /\ \E reply \in Replies(alphabet) : rx' = rx \o reply
    /\ lastOp' = "sleep"
    /\ lastSend' = "none"
    /\ Goto(next)
    /\ UNCHANGED <<transport, sent, drained>>

(* time.sleep() before a reply that nothing receives any more: its bytes   *)
(* are never decoded.                                                      *)
SleepUnread(next) == Sleep({"txt"}, next)

(* while recv_ready(): [data =] recv(_bufferSize).decode("utf-8")          *)
(* Every chunk is received and decoded in turn; data, when the loop        *)
(* assigns it, is overwritten by each chunk.  A chunk that does not decode *)
(* raises UnicodeDecodeError there, the chunks after it stay buffered.     *)
DrainedData(buf, old) ==
    LET b == FirstBad(buf)
        n == IF b = 0 THEN Len(buf) ELSE b - 1
    IN IF n = 0 THEN old ELSE buf[n]

(* The chunks of buf one receive loop decodes: all of them, or those       *)
(* before the first that does not decode.                                  *)
Decoded(buf) ==
    LET b == FirstBad(buf) IN IF b = 0 THEN buf ELSE SubSeq(buf, 1, b - 1)

Drain(m, assigns, caught, next) ==
    LET b == FirstBad(rx) IN
    /\ rx' = IF b = 0 THEN << >> ELSE SubSeq(rx, b + 1, Len(rx))
    /\ data' = IF assigns THEN DrainedData(rx, data) ELSE data
    /\ drained' = IF assigns /\ m # "run" THEN Decoded(rx) ELSE << >>
    /\ IF b = 0
       THEN Goto(next)
       ELSE IF caught
            THEN Return(m, "False")
            ELSE Raise(m, "UnicodeDecodeError")
    /\ lastOp' = "drain"
    /\ lastSend' = "none"
    /\ UNCHANGED <<transport, sent>>

(* Device.logout, lines 158-164: RemoteShell.close(), SSHClient.close().   *)
(* An exception of close() is caught and the method then returns None.     *)
(* Yields the value Device.logout returns.                                 *)
CloseOutcomes == {"ok", "error"}

DeviceLogoutValue(o) == IF o = "ok" THEN "True" ELSE "None"

Close(m, o, v) ==
    /\ transport' = [transport EXCEPT ![idx] =
                        IF o = "ok" THEN "closed" ELSE "closeFailed"]
    /\ Return(m, v)
    /\ lastOp' = "close"
    /\ lastSend' = "none"
    /\ UNCHANGED <<rx, sent, drained>>

(* What no device method touches, and what only Device.run, only the      *)
(* methods with a local data or result touch.                              *)
DeviceFrame == UNCHANGED <<taskFile, original, first, codec, activity, pc, idx, aDevice, logFile, outputFile,
                           files, log>>

NoOutput == UNCHANGED <<out, cmdIdx>>

(* ------------------------------------------------------------ class Device *)
(* Device.connect, lines 67-91.  On success the shell is open and the      *)
(* remote's banner is buffered.  SSHClient.connect() or, after it,         *)
(* invoke_shell() may raise: the method returns False, in the second case  *)
(* with the client connected.                                              *)
ConnectOutcomes == {"ok", "noConnect", "noShell"}

DeviceConnectTo(outcomes) ==
    /\ frame = "connect"
    /\ \E o \in outcomes :
         /\ transport' = [transport EXCEPT ![idx] =
                             CASE o = "ok" -> "open"
                               [] o = "noShell" -> "openNoShell"
                               [] OTHER -> "none"]
         /\ IF o = "ok"
            THEN /\ \E banner \in Replies({"txt", "bad"}) : rx' = banner
                 /\ Return("connect", "True")
            ELSE /\ rx' = rx
                 /\ Return("connect", "False")
    /\ UNCHANGED <<data, result, cmdIdx, lastOp, sent, lastSend, drained, out>>
    /\ DeviceFrame

DeviceConnect == DeviceConnectTo(ConnectOutcomes)

(* connect on a target that cannot be reached: SSHClient.connect() raises. *)
DeviceConnectUnreachable == DeviceConnectTo({"noConnect"})

(* Mutant of Command: the list is walked from its end. *)
CommandReversed(k) == activity.commands[Len(activity.commands) + 1 - k]

(* Line 112, "for cmd in commands": the k-th command of the list. *)
Command(k) == activity.commands[k]

(* Mutant of SendFailed: a send that accepts nothing is taken as sent. *)
SendFailedOnError(o) == o = "error"

(* Lines 113-114 and 120: send() raised, or returned 0 and the method      *)
(* raises IOError, which the except clause catches as a socket.error.      *)
SendFailed(o) == o # "ok"

(* Device.run, lines 93-125.  Each receive loop adds one item to the sink: *)
(* the text it wrote, chunk after chunk, until the loop ended or a chunk   *)
(* did not decode (the empty text when nothing had arrived).  Item 0 is    *)
(* the pending output, item k what followed command k.                     *)
DeviceRun ==
    /\ frame = "run"
    /\ \/ /\ step = 0      \* 109-111: the pending output goes to outfile
          /\ Drain("run", TRUE, TRUE, 1)
          /\ cmdIdx' = 1
       \/ /\ step = 1      \* 112-114, 119: the next command, or the end
          /\ IF cmdIdx <= Len(activity.commands)
             THEN \E o \in SendOutcomes :
                    /\ lastSend' = o
                    /\ IF SendFailed(o) THEN Return("run", "False") ELSE Goto(2)
                    /\ sent' = Append(sent, SentItem("cmd", Command(cmdIdx)))
                    /\ lastOp' = "send"
             ELSE /\ Return("run", "True")
                  /\ UNCHANGED <<sent, lastSend, lastOp>>
          /\ UNCHANGED <<rx, data, cmdIdx, transport, drained>>
       \/ /\ step = 2      \* 115
          /\ Sleep({"txt", "bad"}, 3)
          /\ UNCHANGED <<data, cmdIdx>>
       \/ /\ step = 3      \* 116-118
          /\ Drain("run", TRUE, TRUE, 1)
          /\ cmdIdx' = cmdIdx + 1
    /\ out' = IF step \in {0, 3}
              THEN Append(out, OutItem("data", aDevice.hostname,
                                       IF step = 0 THEN 0 ELSE cmdIdx))
              ELSE out
    /\ UNCHANGED result
    /\ DeviceFrame

(* Device.superuser, lines 127-136; DeviceCiscoWLC inherits it. *)
DeviceSuperuser ==
    /\ frame = "superuser"
    /\ aDevice.class \in {"Device", "DeviceCiscoWLC"}
    /\ Return("superuser", "True")
    /\ UNCHANGED <<transport, data, result>>
    /\ UNCHANGED <<rx, lastOp, sent, lastSend, drained>>
    /\ NoOutput
    /\ DeviceFrame

(* Device.login, lines 138-147; DeviceLinux inherits it. *)
DeviceLogin ==
    /\ frame = "login"
    /\ aDevice.class \in {"Device", "DeviceLinux"}
    /\ Return("login", "True")
    /\ UNCHANGED <<transport, data, result>>
    /\ UNCHANGED <<rx, lastOp, sent, lastSend, drained>>
    /\ NoOutput
    /\ DeviceFrame

(* Device.logout, lines 149-164. *)
DeviceLogout ==
    /\ frame = "logout"
    /\ aDevice.class = "Device"
    /\ \E o \in CloseOutcomes : Close("logout", o, DeviceLogoutValue(o))
    /\ UNCHANGED <<data, result>>
    /\ NoOutput
    /\ DeviceFrame

(* ---------------------------------------------------- class DeviceCiscoIOS *)
(* DeviceCiscoIOS.superuser, lines 170-199.  The except clause names       *)
(* SSHException alone: socket.error and UnicodeDecodeError leave it.       *)
DeviceCiscoIOSSuperuser ==
    /\ frame = "superuser"
    /\ aDevice.class = "DeviceCiscoIOS"
    /\ \/ /\ step = 0      \* 179-182
          /\ Drain("superuser", FALSE, FALSE, 1)
          /\ result' = FALSE
       \/ /\ step = 1      \* 183
          /\ Send("superuser", "enable", FALSE, 2)
          /\ UNCHANGED <<data, result>>
       \/ /\ step = 2      \* 184-185
          /\ Sleep({"txt", "bad", "Password:"}, 3)
          /\ data' = ""
          /\ UNCHANGED result
       \/ /\ step = 3      \* 186-187
          /\ Drain("superuser", TRUE, FALSE, 4)
          /\ UNCHANGED result
       \/ /\ step = 4      \* 188-189, 199
          /\ IF Found(data, "Password:")
             THEN Send("superuser", "password", FALSE, 5)
             ELSE /\ Return("superuser", IF result THEN "True" ELSE "False")
                  /\ UNCHANGED <<rx, transport, lastOp, sent, lastSend, drained>>
          /\ UNCHANGED <<data, result>>
       \/ /\ step = 5      \* 190-191
          /\ Sleep({"txt", "bad", "#"}, 6)
          /\ data' = ""
          /\ UNCHANGED result
       \/ /\ step = 6      \* 192-193
          /\ Drain("superuser", TRUE, FALSE, 7)
          /\ UNCHANGED result
       \/ /\ step = 7      \* 194-195, 199
          /\ result' = (result \/ Found(data, "#"))
          /\ Return("superuser", IF result' THEN "True" ELSE "False")
          /\ UNCHANGED <<rx, data, transport, lastOp, sent, lastSend, drained>>
    /\ NoOutput
    /\ DeviceFrame

(* DeviceCiscoIOS.logout, lines 201-218.  UnicodeDecodeError is not named  *)
(* by the except clause.  super().logout() is inside the try, after the    *)
(* dialogue, and what it returns is dropped.                               *)
DeviceCiscoIOSLogout ==
    /\ frame = "logout"
    /\ aDevice.class = "DeviceCiscoIOS"
    /\ \/ /\ step = 0      \* 207-208
          /\ Drain("logout", FALSE, FALSE, 1)
       \/ /\ step = 1      \* 209
          /\ Send("logout", "end", TRUE, 2)
          /\ UNCHANGED data
       \/ /\ step = 2      \* 210
          /\ SleepUnread(3)
          /\ UNCHANGED data
       \/ /\ step = 3      \* 211
          /\ Send("logout", "exit", TRUE, 4)
          /\ UNCHANGED data
       \/ /\ step = 4      \* 212
          /\ SleepUnread(5)
          /\ UNCHANGED data
       \/ /\ step = 5      \* 213-214
          /\ \E o \in CloseOutcomes : Close("logout", o, "True")
          /\ UNCHANGED data
    /\ UNCHANGED result
    /\ NoOutput
    /\ DeviceFrame

(* DeviceCiscoIOS.login, lines 220-237. *)
DeviceCiscoIOSLogin ==
    /\ frame = "login"
    /\ aDevice.class = "DeviceCiscoIOS"
    /\ \/ /\ step = 0      \* 229-230
          /\ Drain("login", FALSE, FALSE, 1)
       \/ /\ step = 1      \* 231
          /\ Send("login", "terminal length 0", TRUE, 2)
          /\ UNCHANGED data
       \/ /\ step = 2      \* 232-233
          /\ \E reply \in Replies({"txt", "bad"}) : rx' = rx \o reply
          /\ lastOp' = "sleep"
          /\ lastSend' = "none"
          /\ Return("login", "True")
          /\ UNCHANGED <<data, transport, sent, drained>>
    /\ UNCHANGED result
    /\ NoOutput
    /\ DeviceFrame

(* ---------------------------------------------------- class DeviceCiscoWLC *)
(* DeviceCiscoWLC.logout, lines 254-277. *)
DeviceCiscoWLCLogout ==
    /\ frame = "logout"
    /\ aDevice.class = "DeviceCiscoWLC"
    /\ \/ /\ step = 0      \* 262
          /\ Send("logout", "end", TRUE, 1)
          /\ UNCHANGED data
       \/ /\ step = 1      \* 263
          /\ Sleep({"txt", "bad"}, 2)
          /\ UNCHANGED data
       \/ /\ step = 2      \* 264
          /\ Send("logout", "exit", TRUE, 3)
          /\ UNCHANGED data
       \/ /\ step = 3      \* 265-266
          /\ Sleep({"txt", "bad", "save?"}, 4)
          /\ data' = ""
       \/ /\ step = 4      \* 267-268
          /\ Drain("logout", TRUE, FALSE, 5)
       \/ /\ step = 5      \* 269-270
          /\ IF Found(data, "save?")
             THEN Send("logout", "No", TRUE, 6)
             ELSE /\ Goto(7)
                  /\ UNCHANGED <<rx, transport, lastOp, sent, lastSend, drained>>
          /\ UNCHANGED data
       \/ /\ step = 6      \* 271
          /\ SleepUnread(7)
          /\ UNCHANGED data
       \/ /\ step = 7      \* 272-273
          /\ \E o \in CloseOutcomes : Close("logout", o, "True")
          /\ UNCHANGED data
    /\ UNCHANGED result
    /\ NoOutput
    /\ DeviceFrame

(* DeviceCiscoWLC.login, lines 279-302.  data is first assigned inside the *)
(* second receive loop: with nothing received it is unbound at line 294,   *)
(* and the UnboundLocalError is not an exception the except clause names.  *)
DeviceCiscoWLCLogin ==
    /\ frame = "login"
    /\ aDevice.class = "DeviceCiscoWLC"
    /\ \/ /\ step = 0      \* 286
          /\ Send("login", "username", TRUE, 1)
          /\ UNCHANGED data
       \/ /\ step = 1      \* 287
          /\ Sleep({"txt", "bad"}, 2)
          /\ UNCHANGED data
       \/ /\ step = 2      \* 288-289
          /\ Drain("login", FALSE, FALSE, 3)
       \/ /\ step = 3      \* 290
          /\ Send("login", "password", TRUE, 4)
          /\ UNCHANGED data
       \/ /\ step = 4      \* 291
          /\ Sleep({"txt", "bad", ">"}, 5)
          /\ UNCHANGED data
       \/ /\ step = 5      \* 292-293
          /\ Drain("login", TRUE, FALSE, 6)
       \/ /\ step = 6      \* 294-296
          /\ IF data = Unbound
             THEN /\ Raise("login", "UnboundLocalError")
                  /\ UNCHANGED <<rx, transport, lastOp, sent, lastSend, drained>>
             ELSE IF ~Found(data, ">")
                  THEN /\ Return("login", "False")
                       /\ UNCHANGED <<rx, transport, lastOp, sent, lastSend, drained>>
                  ELSE Send("login", "config paging disable", TRUE, 7)
          /\ UNCHANGED data
       \/ /\ step = 7      \* 297-298
          /\ \E reply \in Replies({"txt", "bad"}) : rx' = rx \o reply
          /\ lastOp' = "sleep"
          /\ lastSend' = "none"
          /\ Return("login", "True")
          /\ UNCHANGED <<data, transport, sent, drained>>
    /\ UNCHANGED result
    /\ NoOutput
    /\ DeviceFrame

(* ------------------------------------------------------- class DeviceLinux *)
(* DeviceLinux.superuser, lines 308-339.  The except clause names          *)
(* SSHException and UnicodeDecodeError, not socket.error.                  *)
DeviceLinuxSuperuser ==
    /\ frame = "superuser"
    /\ aDevice.class = "DeviceLinux"
    /\ \/ /\ step = 0      \* 320-321
          /\ Drain("superuser", FALSE, TRUE, 1)
       \/ /\ step = 1      \* 322
          /\ Send("superuser", "su", FALSE, 2)
          /\ UNCHANGED data
       \/ /\ step = 2      \* 323-324
          /\ Sleep({"txt", "bad", "Password:"}, 3)
          /\ data' = ""
       \/ /\ step = 3      \* 325-326
          /\ Drain("superuser", TRUE, TRUE, 4)
       \/ /\ step = 4      \* 327-328, 335
          /\ IF Found(data, "Password:")
             THEN Send("superuser", "password", FALSE, 5)
             ELSE /\ Return("superuser", "False")
                  /\ UNCHANGED <<rx, transport, lastOp, sent, lastSend, drained>>
          /\ UNCHANGED data
       \/ /\ step = 5      \* 329-330
          /\ Sleep({"txt", "bad", "root"}, 6)
          /\ data' = ""
       \/ /\ step = 6      \* 331-332
          /\ Drain("superuser", TRUE, TRUE, 7)
       \/ /\ step = 7      \* 333-335
          /\ Return("superuser", IF Found(data, "root") THEN "True" ELSE "False")
          /\ UNCHANGED <<rx, data, transport, lastOp, sent, lastSend, drained>>
    /\ UNCHANGED result
    /\ NoOutput
    /\ DeviceFrame

(* DeviceLinux.logout, lines 341-354. *)
DeviceLinuxLogout ==
    /\ frame = "logout"
    /\ aDevice.class = "DeviceLinux"
    /\ \/ /\ step = 0      \* 347
          /\ Send("logout", "logout", TRUE, 1)
       \/ /\ step = 1      \* 348
          /\ SleepUnread(2)
       \/ /\ step = 2      \* 349-350
          /\ \E o \in CloseOutcomes : Close("logout", o, "True")
    /\ UNCHANGED <<data, result>>
    /\ NoOutput
    /\ DeviceFrame

(* ------------------------------------------------- the credential codec *)
(* A str is the sequence of its code points, a bytes object the sequence   *)
(* of its bytes, a string of hexadecimal digits the sequence of the digit  *)
(* values.  Chars are the code points of "a", "b" and "\u00e9".            *)
Chars == {97, 98, 233}

Texts == UNION { [1..n -> Chars] : n \in 0..MaxText }

(* The ^ operator on non-negative integers. *)
RECURSIVE Xor(_, _)
Xor(a, b) ==
    IF a = 0 /\ b = 0
    THEN 0
    ELSE ((a + b) % 2) + 2 * Xor(a \div 2, b \div 2)

(* zip(text, cycle(key)) with ^ on each pair: as long as text, and empty   *)
(* when key is empty, for cycle("") yields nothing.                        *)
XorZip(text, key) ==
    IF Len(key) = 0
    THEN << >>
    ELSE [i \in 1..Len(text) |-> Xor(text[i], key[((i - 1) % Len(key)) + 1])]

(* str.encode("utf-8") of one code point below 65536. *)
Utf8Char(c) ==
    IF c < 128 THEN <<c>>
    ELSE IF c < 2048 THEN <<192 + (c \div 64), 128 + (c % 64)>>
    ELSE <<224 + (c \div 4096), 128 + ((c \div 64) % 64), 128 + (c % 64)>>

RECURSIVE Utf8(_)
Utf8(text) ==
    IF text = << >> THEN << >> ELSE Utf8Char(Head(text)) \o Utf8(Tail(text))

(* codecs.encode(bytes, "hex"): two digits a byte. *)
RECURSIVE HexEncode(_)
HexEncode(bytes) ==
    IF bytes = << >>
    THEN << >>
    ELSE <<Head(bytes) \div 16, Head(bytes) % 16>> \o HexEncode(Tail(bytes))

(* codecs.decode(digits, "hex"); the digits come in pairs. *)
HexDecode(digits) ==
    [i \in 1..(Len(digits) \div 2) |-> 16 * digits[2 * i - 1] + digits[2 * i]]

(* Activity.xor_crypt_string, lines 474-481. *)
xor_crypt_string(plaintext, key) == HexEncode(Utf8(XorZip(plaintext, key)))

(* Activity.xor_decrypt_string, lines 484-488: the xor runs over the       *)
(* bytes, not over the code points they encode.                            *)
xor_decrypt_string(ciphertext, key) == XorZip(HexDecode(ciphertext), key)

(* The two functions applied in turn to arguments drawn from Texts. *)
InitCodec ==
    /\ taskFile = NoFile
    /\ original = "none"
    /\ codec \in { [stage |-> "args", plaintext |-> p, key |-> k,
                     ciphertext |-> << >>, decrypted |-> << >>] :
                    p \in Texts, k \in Texts }
    /\ activity = Activity
    /\ NotRun("codec")

Crypt ==
    /\ pc = "codec"
    /\ codec.stage = "args"
    /\ codec' = [codec EXCEPT
                     !.stage = "crypted",
                     !.ciphertext = xor_crypt_string(codec.plaintext, codec.key)]
    /\ UNCHANGED <<taskFile, original, first, activity>>
    /\ UNCHANGED <<runVars, sinkVars, devVars, chanVars>>

Decrypt ==
    /\ pc = "codec"
    /\ codec.stage = "crypted"
    /\ codec' = [codec EXCEPT
                     !.stage = "decrypted",
                     !.decrypted = xor_decrypt_string(codec.ciphertext, codec.key)]
    /\ UNCHANGED <<taskFile, original, first, activity>>
    /\ UNCHANGED <<runVars, sinkVars, devVars, chanVars>>

NextCodec == Crypt \/ Decrypt

SpecCodec == InitCodec /\ [][NextCodec]_vars

(* ------------------------------------------------------- the task files *)
(* A JSON task file is the dict json.load returns: the keys it holds and   *)
(* their values.  val is a record over all the keys the program knows; the *)
(* value under a key that is not in keys is never read.                    *)
RequiredKeys == <<"name", "login", "password", "devices", "commands">>

OptionalKeys == <<"type", "outputDir", "singleFile", "logDir">>

(* Activity.writeToJSON, lines 208-225: the dict that json.dump writes. *)
writeToJSON(a) ==
    [keys |-> {"name", "desc", "login", "password", "devices", "commands"}
              \cup (IF a.superuserNeeded THEN {"superuserPassword"} ELSE {})
              \cup (IF a.deviceType # "" THEN {"type"} ELSE {})
              \cup (IF a.outputDir # "" THEN {"outputDir"} ELSE {})
              \cup (IF a.outputDir # "" /\ a.singleFile
                    THEN {"singleFile"} ELSE {})
              \cup (IF a.logDir # "" THEN {"logDir"} ELSE {}),
     val |-> [name |-> a.name,
              login |-> a.user,
              password |-> xor_crypt_string(a.password, a.user),
              superuserPassword |->
                  IF a.superuserNeeded
                  THEN xor_crypt_string(a.superuserPassword, a.user)
                  ELSE << >>,
              type |-> a.deviceType,
              devices |-> a.targets,
              commands |-> a.commands,
              outputDir |-> a.outputDir,
              singleFile |-> TRUE,
              logDir |-> a.logDir]]

(* The position in list of the first key the dict does not hold, 0 when it *)
(* holds them all: where data[key] raises KeyError.                        *)
FirstMissing(json, list) ==
    IF \E i \in DOMAIN list : list[i] \notin json.keys
    THEN CHOOSE i \in DOMAIN list :
            /\ list[i] \notin json.keys
            /\ \A j \in 1..(i - 1) : list[j] \in json.keys
    ELSE 0

(* The assignment from the k-th key of list is executed: no key before it  *)
(* is missing, nor is it.                                                  *)
Assigned(json, list, k) ==
    LET m == FirstMissing(json, list) IN m = 0 \/ k < m

(* Activity.loadFromJSON, lines 259-279, on the dict json.load returned:   *)
(* the Activity it leaves and how it ends.  The five required keys are     *)
(* read outside any try; the four optional ones in one try, in order; the  *)
(* escalation password in a try of its own.                                *)
loadFromJSON(a, json) ==
    LET R(k) == Assigned(json, RequiredKeys, k)
        O(k) == Assigned(json, OptionalKeys, k)
        v == json.val
        a1 == [a EXCEPT
                 !.name = IF R(1) THEN v.name ELSE @,
                 !.user = IF R(2) THEN v.login ELSE @,
                 !.password = IF R(3)
                              THEN xor_decrypt_string(v.password, v.login)
                              ELSE @,
                 !.targets = IF R(4) THEN v.devices ELSE @,
                 !.commands = IF R(5) THEN v.commands ELSE @]
        a2 == [a1 EXCEPT
                 !.deviceType = IF O(1) THEN v.type ELSE @,
                 !.outputDir = IF O(2) THEN v.outputDir ELSE @,
                 !.singleFile = IF O(3) THEN v.singleFile ELSE @,
                 !.logDir = IF O(4) THEN v.logDir ELSE @]
        a3 == IF "superuserPassword" \in json.keys
              THEN [a2 EXCEPT
                      !.superuserPassword =
                          xor_decrypt_string(v.superuserPassword, a2.user),
                      !.superuserNeeded = TRUE]
              ELSE a2
    IN IF FirstMissing(json, RequiredKeys) = 0
       THEN [activity |-> a3, ends |-> "True"]
       ELSE [activity |-> a1, ends |-> "KeyError"]

(* The activities that are written: every combination of the optional     *)
(* fields set or unset.                                                    *)
Users == {<< >>, <<97>>}

Passwords == {<<98>>, <<233>>}

WrittenActivities ==
    { [name |-> <<97>>, user |-> u, password |-> p,
       superuserPassword |-> sp, superuserNeeded |-> s,
       targets |-> <<1>>, commands |-> <<1>>, outputDir |-> o, logDir |-> l,
       singleFile |-> f, deviceType |-> t] :
      u \in Users, p \in Passwords, sp \in {<< >>} \cup Passwords,
      s \in BOOLEAN, o \in Dirs, l \in Dirs, f \in BOOLEAN,
      t \in DeviceTypes }

JSONFile(json) ==
    [ext |-> ".json", exists |-> TRUE, parses |-> TRUE, doc |-> json]

(* writeToJSON on one Activity object, then loadFromJSON of the file into  *)
(* an Activity just constructed.                                           *)
InitJSON ==
    /\ taskFile = NoFile
    /\ original \in WrittenActivities
    /\ codec = NoCodec
    /\ activity = Activity
    /\ NotRun("write")

(* Lines 226-245: the file is written, or open/makedirs raises and the     *)
(* method returns False.                                                   *)
WriteToJSON ==
    /\ pc = "write"
    /\ \E ok \in BOOLEAN :
         IF ok
         THEN /\ taskFile' = JSONFile(writeToJSON(original))
              /\ pc' = "load"
         ELSE /\ taskFile' = taskFile
              /\ pc' = "notWritten"
    /\ UNCHANGED <<original, first, codec, activity, idx>>
    /\ UNCHANGED <<sinkVars, devVars, chanVars>>

LoadFromJSON ==
    /\ pc = "load"
    /\ LET r == loadFromJSON(activity, taskFile.doc) IN
         /\ activity' = r.activity
         /\ pc' = IF r.ends = "True" THEN "loaded" ELSE "loadRaised"
         /\ exc' = IF r.ends = "True" THEN exc ELSE r.ends
    /\ UNCHANGED <<taskFile, original, first, codec, idx>>
    /\ UNCHANGED sinkVars
    /\ UNCHANGED <<aDevice, transport, hist, frame, step, ret>>
    /\ UNCHANGED chanVars

NextJSON == WriteToJSON \/ LoadFromJSON

SpecJSON == InitJSON /\ [][NextJSON]_vars

(* Activity.writeToXML, lines 139-181: the elements and attributes of the  *)
(* tree it builds, under the names of the JSON keys where there is one;    *)
(* "output" carries the attributes dir and singleFile, "log" carries dir,  *)
(* "type" is the attribute of "devices".                                   *)
writeToXML(a) ==
    [keys |-> {"name", "login", "devices", "commands"}
              \cup (IF a.superuserNeeded THEN {"superuserPassword"} ELSE {})
              \cup (IF a.deviceType # "" THEN {"type"} ELSE {})
              \cup (IF a.outputDir # "" THEN {"output"} ELSE {})
              \cup (IF a.logDir # "" THEN {"log"} ELSE {}),
     val |-> [name |-> a.name,
              login |-> a.user,
              password |-> xor_crypt_string(a.password, a.user),
              superuserPassword |->
                  IF a.superuserNeeded
                  THEN xor_crypt_string(a.superuserPassword, a.user)
                  ELSE << >>,
              type |-> a.deviceType,
              devices |-> a.targets,
              commands |-> a.commands,
              outputDir |-> a.outputDir,
              singleFile |-> IF a.singleFile THEN "Yes" ELSE "No",
              logDir |-> a.logDir]]

(* Activity.loadFromXML, lines 91-121, on the tree etree.parse returned.   *)
(* A missing name attribute raises KeyError, which is caught; find() of a  *)
(* missing element returns None and the .get or the iteration on it raises *)
(* AttributeError or TypeError, which are not.                             *)
loadFromXML(a, xml) ==
    LET v == xml.val
        has(k) == k \in xml.keys
        a1 == [a EXCEPT !.name = v.name]
        a2 == [a1 EXCEPT
                 !.user = v.login,
                 !.password = xor_decrypt_string(v.password, v.login)]
        a3 == IF has("superuserPassword")
              THEN [a2 EXCEPT
                      !.superuserNeeded = TRUE,
                      !.superuserPassword =
                          xor_decrypt_string(v.superuserPassword, v.login)]
              ELSE a2
        a4 == IF has("output")
              THEN [a3 EXCEPT
                      !.outputDir = v.outputDir,
                      !.singleFile =
                          IF Lower(v.singleFile) = "yes" THEN TRUE ELSE @]
              ELSE a3
        a5 == IF has("log") THEN [a4 EXCEPT !.logDir = v.logDir] ELSE a4
        a6 == [a5 EXCEPT !.targets = << >>, !.commands = << >>]
        a7 == [a6 EXCEPT
                 !.deviceType = IF has("type") THEN v.type ELSE @,
                 !.targets = v.devices]
        a8 == [a7 EXCEPT !.commands = v.commands]
    IN CASE ~has("name") -> [activity |-> a, ends |-> "False"]
         [] has("name") /\ ~has("login") ->
                [activity |-> a1, ends |-> "AttributeError"]
         [] has("name") /\ has("login") /\ ~has("devices") ->
                [activity |-> a6, ends |-> "AttributeError"]
         [] has("name") /\ has("login") /\ has("devices")
                /\ ~has("commands") ->
                [activity |-> a7, ends |-> "TypeError"]
         [] OTHER -> [activity |-> a8, ends |-> "True"]

(* Activity.check, lines 291-310: the message of the ValueError it raises, *)
(* "" when it raises none.  dirsOk: testMakeDir succeeds on the            *)
(* directories that are set.                                               *)
check(a, dirsOk) ==
    CASE a.name = << >> -> "Missing name"
      [] a.name # << >> /\ (a.outputDir # "" \/ a.logDir # "") /\ ~dirsOk ->
             "Failed directory"
      [] OTHER ->
             IF Len(a.targets) = 0 THEN "No target devices found"
             ELSE IF Len(a.commands) = 0 THEN "No commands found"
             ELSE IF a.deviceType # ""
                     /\ a.deviceType \notin listOfDeviceTypes
                  THEN "Invalid device type "
                  ELSE ""

(* The tags a task file may carry for the device type. *)
Tags == DeviceTypes \cup {"LINUX", "CiscoIOS", "bogus"}

(* The activities a task file may describe, valid or not. *)
TaskActivities ==
    { [name |-> n, user |-> <<97>>, password |-> <<98>>,
       superuserPassword |-> <<98>>, superuserNeeded |-> s,
       targets |-> t, commands |-> c, outputDir |-> o, logDir |-> l,
       singleFile |-> f, deviceType |-> d] :
      n \in {<< >>, <<97>>}, s \in BOOLEAN, t \in {<< >>, <<1>>},
      c \in {<< >>, <<1>>}, o \in Dirs, l \in Dirs, f \in BOOLEAN,
      d \in Tags }

(* A document as written, or with one of the keys dropped. *)
Edited(doc, dropped) ==
    {doc} \cup { [doc EXCEPT !.keys = @ \ {k}] : k \in dropped }

(* The files runTask is given: the file writeToJSON or writeToXML writes    *)
(* for an activity, possibly with one required key or element deleted by   *)
(* hand; a file that is not JSON or XML inside; a file with another         *)
(* extension; a path where no file is.                                      *)
TaskFiles ==
    LET none == writeToJSON(Activity) IN
    { [ext |-> e, exists |-> TRUE, parses |-> TRUE, doc |-> d] :
        e \in {".json", ".JSON"},
        d \in UNION { Edited(writeToJSON(a),
                             {"name", "login", "password", "devices",
                              "commands"}) : a \in TaskActivities } }
    \cup
    { [ext |-> ".xml", exists |-> TRUE, parses |-> TRUE, doc |-> d] :
        d \in UNION { Edited(writeToXML(a),
                             {"name", "login", "devices", "commands"}) :
                      a \in TaskActivities } }
    \cup
    { [ext |-> e, exists |-> x, parses |-> FALSE, doc |-> none] :
        e \in {".json", ".xml", ".txt"}, x \in BOOLEAN }

InitTask ==
    /\ taskFile \in TaskFiles
    /\ original = "none"
    /\ codec = NoCodec
    /\ activity = Activity
    /\ NotRun("runTask")

(* What no step of runTask before run() touches. *)
TaskFrame ==
    /\ UNCHANGED <<taskFile, original, first, codec, idx>>
    /\ UNCHANGED sinkVars
    /\ UNCHANGED <<aDevice, frame, step, ret>>
    /\ UNCHANGED chanVars

(* runTask, lines 86-101: the file is looked for and loaded into a new     *)
(* Activity.  json.load and etree.parse fail on a file that does not       *)
(* parse, and the loader returns False.                                    *)
RunTaskLoad ==
    /\ pc = "runTask"
    /\ LET ext == Lower(taskFile.ext)
           r == IF ~taskFile.parses
                THEN [activity |-> activity, ends |-> "False"]
                ELSE IF ext = ".xml"
                     THEN loadFromXML(activity, taskFile.doc)
                     ELSE loadFromJSON(activity, taskFile.doc)
       IN
       IF ~taskFile.exists
       THEN pc' = "return9" /\ UNCHANGED <<activity, exc>>
       ELSE IF ext \notin {".xml", ".json"}
            THEN pc' = "return13" /\ UNCHANGED <<activity, exc>>
            ELSE /\ activity' = r.activity
                 /\ pc' = CASE r.ends = "True" -> "check"
                            [] r.ends = "False" ->
                                   IF ext = ".xml" THEN "return11"
                                                   ELSE "return12"
                            [] OTHER -> "loadRaised"
                 /\ exc' = IF r.ends \in {"True", "False"} THEN exc
                                                            ELSE r.ends
    /\ UNCHANGED <<transport, hist>>
    /\ TaskFrame

(* runTask, lines 102-106: check() and its ValueError. *)
RunTaskCheck ==
    /\ pc = "check"
    /\ \E dirsOk \in BOOLEAN :
         pc' = IF check(activity, dirsOk) = "" THEN "summary" ELSE "return13"
    /\ UNCHANGED <<activity, exc, transport, hist>>
    /\ TaskFrame

(* runTask, lines 111-115: printSummary(), then run() is called. *)
RunTaskRun ==
    /\ pc = "summary"
    /\ pc' = "start"
    /\ transport' = [i \in 1..Len(activity.targets) |-> "none"]
    /\ hist' = [i \in 1..Len(activity.targets) |-> NoHist]
    /\ UNCHANGED <<activity, exc>>
    /\ TaskFrame

(* ------------------------------------------------------ the specification *)
(* The steps of run() and of the device methods it calls. *)
Step ==
    \/ RunStart
    \/ RunOpenShared
    \/ RunNextTarget
    \/ RunConnected
    \/ RunLoggedIn
    \/ RunSuperuser
    \/ RunOpenOutput
    \/ RunCommandsDone
    \/ RunLoggedOut
    \/ RunFinished
    \/ RunFinish
    \/ RunRaise
    \/ DeviceConnect
    \/ DeviceRun
    \/ DeviceSuperuser
    \/ DeviceLogin
    \/ DeviceLogout
    \/ DeviceCiscoIOSSuperuser
    \/ DeviceCiscoIOSLogout
    \/ DeviceCiscoIOSLogin
    \/ DeviceCiscoWLCLogout
    \/ DeviceCiscoWLCLogin
    \/ DeviceLinuxSuperuser
    \/ DeviceLinuxLogout

Next == Step \/ Interrupt

Spec == Init /\ [][Next]_vars

(* A run nobody interrupts.  The interpreter executes the next statement   *)
(* whenever there is one; every sleep is a fixed delay, every receive loop *)
(* ends when the remote has stopped sending, and connect, send and close   *)
(* return or raise: so a step that is possible is eventually taken.        *)
SpecLive == InitList /\ [][Step]_vars /\ WF_vars(Step)

(* check() and createDevice applied to the same Activity, whatever its     *)
(* device type tag.                                                        *)
InitVariant ==
    /\ NoFiles
    /\ activity \in TaskActivities
    /\ NotRun("variant")

VariantCheck ==
    /\ pc = "variant"
    /\ \E dirsOk \in BOOLEAN : exc' = check(activity, dirsOk)
    /\ pc' = "checked"
    /\ UNCHANGED <<activity, transport, hist>>
    /\ TaskFrame

VariantCreate ==
    /\ pc = "checked"
    /\ aDevice' = createDevice(0, activity.deviceType)
    /\ pc' = "created"
    /\ UNCHANGED <<taskFile, original, first, codec, activity, idx>>
    /\ UNCHANGED sinkVars
    /\ UNCHANGED <<transport, hist, frame, step, ret, exc>>
    /\ UNCHANGED chanVars

NextVariant == VariantCheck \/ VariantCreate

SpecVariant == InitVariant /\ [][NextVariant]_vars

(* run() is called again on the same Activity object once the first call  *)
(* has returned or raised.  The attributes logFile and outputFile, the     *)
(* sinks and the lists are as the first call left them; the devices of     *)
(* the first call are gone with its frame.                                 *)
RunAgain ==
    /\ pc \in {"done", "aborted"}
    /\ first.ended = "none"
    /\ first' = [ended |-> pc, log |-> log, files |-> files, hist |-> hist]
    /\ pc' = "start"
    /\ idx' = 0
    /\ exc' = "none"
    /\ aDevice' = [class |-> "none", hostname |-> 0]
    /\ transport' = [i \in 1..Len(activity.targets) |-> "none"]
    /\ hist' = [i \in 1..Len(activity.targets) |-> NoHist]
    /\ UNCHANGED <<taskFile, original, codec, activity, frame, step, ret>>
    /\ UNCHANGED sinkVars
    /\ UNCHANGED chanVars

(* Two calls of run() with every target unreachable. *)
NextTwice ==
    \/ RunStart
    \/ RunOpenShared
    \/ RunNextTarget
    \/ DeviceConnectUnreachable
    \/ RunConnected
    \/ RunFinish
    \/ RunAgain

SpecTwice == Init /\ [][NextTwice]_vars

(* runTask: the task file is loaded and checked, and then run. *)
NextTask == RunTaskLoad \/ RunTaskCheck \/ RunTaskRun \/ Next

SpecTask == InitTask /\ [][NextTask]_vars

(* The same program run on the activities with a longer command list. *)
SpecList == InitList /\ [][Next]_vars

(* ------------------------------------------------------------------ types *)
TypeOK ==
    /\ pc \in {"start", "openShared", "loop", "connect", "login", "superuser",
               "openOutput", "run", "logout", "finished", "done",
               "aborted", "interrupted"}
    /\ idx \in 0..Len(activity.targets)
    /\ frame \in Methods \cup {"none", "return", "raise"}
    /\ ret \in {"none", "True", "False", "None"}
    /\ Len(rx) <= MaxChunks

(* ------------------------------------------------------ what claims read *)
Turns == 1..Len(activity.targets)

(* The loop has left turn i: by continue or past its last statement. *)
TurnOver(i) ==
    \/ idx > i
    \/ idx = i /\ pc \in {"loop", "done"}
    \/ idx = i /\ pc = "interrupted" /\ frame = "none"

(* run() has ended: it returned, or an exception left it. *)
RunEnded == pc \in {"done", "aborted"}

(* Turn i got past connect, login and, when the activity asks for it,      *)
(* superuser: lines 370-382 are for it.                                    *)
ReachedCommandPhase(i) ==
    /\ hist[i].connect = "True"
    /\ hist[i].login = "True"
    /\ activity.superuserNeeded => hist[i].superuser = "True"

LogOfTurn(i) == LET T(l) == l.turn = i IN SelectSeq(log, T)

OutOfTurn(i) == LET T(o) == o.turn = i IN SelectSeq(out, T)

FinishedLines == LET T(l) == l.msg = "Finished commands at " IN SelectSeq(log, T)

FilesOfTurn(i) == { k \in DOMAIN files : files[k].kind = "out" /\ files[k].turn = i }

CommandsSent == LET T(x) == x.text = "cmd" IN SelectSeq(sent, T)

(* What the receive loops of Device.run wrote to the sink in this turn. *)
DataItems == LET T(o) == o.kind = "data" /\ o.turn = idx IN SelectSeq(out, T)

(* text was handed to RemoteShell.send in this turn. *)
Sent(text) == \E k \in DOMAIN sent : sent[k].text = text

(* The marker is somewhere in the text a receive loop decoded. *)
Contains(chunks, marker) == \E k \in DOMAIN chunks : Found(chunks[k], marker)

(* --------------------------------------------------------------- claims *)
(* C1: a step failure at one target never aborts the run: when run() has   *)
(* stopped on what a device method raised, connect had been attempted on   *)
(* every target of the list.                                               *)
C1_FailureIsolation ==
    (pc = "aborted" /\ frame = "raise") =>
        \A i \in Turns : hist[i].connect # "none"

(* C2, as claimed: when run() completes, the log holds as many "Finished   *)
(* commands at" lines as there are targets, whatever their outcomes.       *)
C2_FinishedLinePerTarget ==
    pc = "done" => Len(FinishedLines) = Len(activity.targets)

(* C2, amended: when run() completes, the log holds exactly one "Finished  *)
(* commands at <target>" line for every target that got past connect,      *)
(* login and the requested superuser, whatever Device.run and logout       *)
(* returned, and none for any other target.                                *)
C2_FinishedLinePerCommandPhase ==
    pc = "done" =>
        \A i \in Turns :
            LET T(l) == l.msg = "Finished commands at " /\ l.host = activity.targets[i]
            IN Len(SelectSeq(log, T)) = IF ReachedCommandPhase(i) THEN 1 ELSE 0

C2_Witness ==
    /\ pc = "done"
    /\ \E i, j \in Turns :
        /\ hist[i].connect = "False"
        /\ hist[j].run = "False"
        /\ hist[j].logout = "False"

(* C3: when superuser fails for a target, the turn writes no delimiter and *)
(* sends no command, and logout has been called on the device by the time  *)
(* the run leaves the turn.                                                *)
C3_EscalationFailureStillLogsOut ==
    \A i \in Turns :
        (hist[i].superuser = "False" /\ TurnOver(i)) =>
            /\ OutOfTurn(i) = << >>
            /\ hist[i].run = "none"
            /\ hist[i].logout # "none"

(* C4: when the run leaves a turn whose connect succeeded, close has been  *)
(* called on that turn's transport.                                        *)
C4_TransportClosedAtTurnEnd ==
    \A i \in Turns :
        (hist[i].connect = "True" /\ TurnOver(i)) => transport[i] # "open"

(* C5: for a target whose connect failed no other device method is called, *)
(* nothing is sent, no sink is opened, no output is written, and the turn  *)
(* logs the connect failure line and nothing else.                         *)
C5_ConnectFailureStopsTurn ==
    \A i \in Turns :
        hist[i].connect = "False" =>
            /\ hist[i].login = "none"
            /\ hist[i].superuser = "none"
            /\ hist[i].run = "none"
            /\ hist[i].logout = "none"
            /\ idx = i => sent = << >>
            /\ OutOfTurn(i) = << >>
            /\ FilesOfTurn(i) = {}
            /\ \A k \in DOMAIN log :
                 (log[k].turn = i \/ log[k].host = activity.targets[i]) =>
                     log[k] = [msg |-> "Unable to connect to ",
                               host |-> activity.targets[i], turn |-> i]
            /\ Len(LogOfTurn(i)) = IF TurnOver(i) THEN 1 ELSE 0

C5_Witness ==
    \E i, j \in Turns :
        /\ hist[i].connect = "False"
        /\ i < j
        /\ hist[j].logout = "True"
        /\ pc = "done"

(* C6: for a target whose login returned False, superuser and Device.run   *)
(* are not called, no command is sent, no sink is opened and nothing is    *)
(* written to an output sink; the turn logs the login failure and the run  *)
(* goes on to the next target, unless it is interrupted first.             *)
C6_LoginFailureStopsTurn ==
    \A i \in Turns :
        hist[i].login = "False" =>
            /\ hist[i].superuser = "none"
            /\ hist[i].run = "none"
            /\ idx = i => CommandsSent = << >>
            /\ OutOfTurn(i) = << >>
            /\ FilesOfTurn(i) = {}
            /\ idx = i => \/ pc = "login" /\ frame = "return"
                          \/ pc \in {"loop", "done", "interrupted"}
            /\ TurnOver(i) =>
                 LogOfTurn(i) =
                    << [msg |-> "Connected to ", host |-> activity.targets[i],
                        turn |-> i],
                       [msg |-> "Unable to login to ",
                        host |-> activity.targets[i], turn |-> i] >>

C6_Witness ==
    \E i \in Turns :
        /\ hist[i].login = "False"
        /\ idx > i
        /\ hist[idx].connect = "True"

(* C7: with one shared sink, when the run has ended the sink holds one     *)
(* block per target that reached the command phase, in target order; a     *)
(* block is the opening delimiter of its target, that target's output and  *)
(* the closing delimiter, also when Device.run or logout failed.           *)
IsBlock(b, i) ==
    /\ Len(b) >= 2
    /\ b[1].kind = "open" /\ b[1].host = activity.targets[i]
    /\ b[Len(b)].kind = "close"
    /\ \A k \in 2..(Len(b) - 1) :
         b[k].kind = "data" /\ b[k].host = activity.targets[i]

InTurnOrder(seq) ==
    \A k, l \in DOMAIN seq : k < l => seq[k].turn <= seq[l].turn

C7_SharedSinkBlocks ==
    (activity.singleFile /\ RunEnded) =>
        /\ InTurnOrder(out)
        /\ \A k \in DOMAIN out : out[k].sink = outputFile
        /\ \A i \in Turns :
             IF ReachedCommandPhase(i)
             THEN IsBlock(OutOfTurn(i), i)
             ELSE OutOfTurn(i) = << >>

(* C8, as claimed: with one sink file per target, every turn the run has   *)
(* left opened exactly one file and closed it, whatever its outcome.       *)
PerTargetFiles == ~activity.singleFile /\ activity.outputDir # ""

C8_OneSinkFilePerTarget ==
    PerTargetFiles =>
        \A i \in Turns :
            TurnOver(i) =>
                /\ Cardinality(FilesOfTurn(i)) = 1
                /\ \A k \in FilesOfTurn(i) : files[k].state = "closed"

(* C8, amended: with one sink file per target, a turn opens at most one    *)
(* file, no file of another turn is open during a turn, and when the run   *)
(* leaves the turn of a target that reached the command phase exactly one  *)
(* file was opened in it and closed, once; the turn of a target that did   *)
(* not reach the command phase opened none.                                *)
C8_OneSinkFilePerCommandPhase ==
    PerTargetFiles =>
        /\ \A k \in DOMAIN files :
             (files[k].kind = "out" /\ files[k].state = "open") =>
                 files[k].turn = idx /\ ~TurnOver(idx)
        /\ \A i \in Turns :
             /\ Cardinality(FilesOfTurn(i)) <= 1
             /\ TurnOver(i) =>
                  /\ Cardinality(FilesOfTurn(i)) =
                        IF ReachedCommandPhase(i) THEN 1 ELSE 0
                  /\ \A k \in FilesOfTurn(i) :
                       files[k].state = "closed" /\ files[k].closes = 1

C8_Witness ==
    /\ PerTargetFiles
    /\ \E i \in Turns :
        /\ idx > i
        /\ ReachedCommandPhase(i)
        /\ hist[i].logout = "False"
        /\ \E k \in FilesOfTurn(i) : files[k].state = "closed"

(* C9: when a sink cannot be created the run stops before connect has been *)
(* attempted on any target.                                                *)
C9_SinkFailureBeforeAnyTarget ==
    (pc = "aborted" /\ exc = "IOError") =>
        \A i \in Turns : hist[i].connect = "none"

(* C10: when a send of the logout dialogue of DeviceCiscoIOS,              *)
(* DeviceCiscoWLC or DeviceLinux raises, logout returns False and close    *)
(* has been called on the transport.                                       *)
C10_LogoutClosesAfterDialogueError ==
    (pc = "logout" /\ frame = "return" /\ lastSend = "error") =>
        /\ ret = "False"
        /\ transport[idx] \in {"closed", "closeFailed"}

(* C11: when DeviceCiscoWLC.login has ended after the password was handed   *)
(* to send and the text received after it, all of it decodable, holds no   *)
(* ">" (nothing received included), login returned False, it raised        *)
(* nothing, and "config paging disable" was not sent; for a target whose   *)
(* login returned False neither superuser nor Device.run is called.        *)
C11_VendorBLoginFailsWithoutPrompt ==
    /\ ( /\ aDevice.class = "DeviceCiscoWLC"
         /\ pc = "login"
         /\ frame \in {"return", "raise"}
         /\ exc # "UnicodeDecodeError"
         /\ Sent("password")
         /\ ~Contains(drained, ">") ) =>
            /\ frame = "return"
            /\ ret = "False"
            /\ ~Sent("config paging disable")
    /\ \A i \in Turns :
         (activity.deviceType = "ciscowlc" /\ hist[i].login = "False") =>
             hist[i].superuser = "none" /\ hist[i].run = "none"

(* C12: in DeviceCiscoIOS.superuser "enable" is sent first; the password   *)
(* is sent exactly when the text received after "enable" holds             *)
(* "Password:"; without it the method returns False and no password is     *)
(* sent; with it the method returns True exactly when the text received    *)
(* after the password holds "#".                                           *)
C12_VendorAEscalate ==
    (pc = "superuser" /\ aDevice.class = "DeviceCiscoIOS") =>
        /\ (frame = "superuser" /\ step >= 2) => Sent("enable")
        /\ Sent("password") => Sent("enable")
        /\ (frame = "superuser" /\ step = 5) => Contains(drained, "Password:")
        /\ (frame = "return" /\ ~Sent("password")) =>
               ret = "False" /\ ~Contains(drained, "Password:")
        /\ (frame = "return" /\ Sent("password")) =>
               (ret = "True" <=> Contains(drained, "#"))

(* C13: Device.run handles the commands in list order, each once.  The     *)
(* pending output is received and written before the first command is      *)
(* sent; a command is followed by its sleep, then by its receive loop,     *)
(* which writes to the sink; command k+1 is sent only when the receive     *)
(* loop of command k has ended; the sink holds the output in command       *)
(* order; when the method returns True every command was sent and          *)
(* received.                                                               *)
C13_CommandRunnerOrdering ==
    (pc = "run" /\ frame \in {"run", "return"}) =>
        LET n == Len(CommandsSent)
            d == Len(DataItems)
        IN /\ n <= Len(activity.commands)
           /\ \A k \in 1..n : CommandsSent[k].cmd = activity.commands[k]
           /\ \A k \in 1..d : DataItems[k].cmd = k - 1
           /\ n <= d /\ d <= n + 1
           /\ (frame = "run" /\ step = 0) => n = 0 /\ d = 0
           /\ (frame = "run" /\ step = 1) => lastOp = "drain" /\ d = n + 1
           /\ (frame = "run" /\ step = 2) => lastOp = "send" /\ d = n
           /\ (frame = "run" /\ step = 3) => lastOp = "sleep" /\ d = n
           /\ (frame = "return" /\ ret = "True") =>
                  n = Len(activity.commands) /\ d = n + 1

C13_Witness ==
    /\ pc = "run"
    /\ frame = "return"
    /\ ret = "True"
    /\ Len(CommandsSent) = 2
    /\ Len(DataItems) = 3

(* C14: Device.run returns False at once when send() accepts nothing or    *)
(* raises, and when a received chunk does not decode; it returns True only *)
(* when every command was sent; after it has returned no further command   *)
(* is sent in that turn; nothing written to a sink is ever taken back.     *)
C14_CommandRunnerFailure ==
    /\ [](pc = "run" =>
            /\ lastSend \in {"zero", "error"} =>
                   frame = "return" /\ ret = "False"
            /\ (frame = "return" /\ ret = "True") =>
                   /\ Len(CommandsSent) = Len(activity.commands)
                   /\ lastOp = "drain"
            /\ (frame = "return" /\ ret = "False") =>
                   \/ lastOp = "send" /\ lastSend \in {"zero", "error"}
                   \/ lastOp = "drain")
    /\ [][ /\ (frame = "run" /\ step \in {0, 3} /\ FirstBad(rx) # 0
                /\ pc' = "run") => frame' = "return" /\ ret' = "False"
           /\ (pc \in {"run", "logout", "finished"} /\ frame # "run"
                /\ pc' \in {"run", "logout", "finished"}) =>
                  CommandsSent' = CommandsSent
           /\ Len(out') >= Len(out)
           /\ SubSeq(out', 1, Len(out)) = out ]_vars

C14_Witness ==
    /\ pc = "logout"
    /\ hist[idx].run = "False"
    /\ Len(activity.commands) = 2
    /\ Len(CommandsSent) = 1
    /\ Len(DataItems) = 1
    /\ DataItems[1].cmd = 0

(* C15: when a chunk received by Device.run did not decode (the method     *)
(* returned False out of a receive loop, whose item is in the sink), the   *)
(* run is not ended by an exception in that turn: the command-error line   *)
(* is logged, logout is called and returns, the closing delimiter is       *)
(* written and the turn reaches its last statement.                        *)
RunDecodeFailed ==
    /\ idx > 0
    /\ hist[idx].run = "False"
    /\ Len(DataItems) = Len(CommandsSent) + 1

C15_DecodeErrorAbortsOnlyCommandPhase ==
    (pc \in {"logout", "finished", "aborted"} /\ RunDecodeFailed) =>
        /\ pc # "aborted"
        /\ \E k \in DOMAIN log :
             /\ log[k].turn = idx
             /\ log[k].msg = "ERROR while running the commmands"
        /\ pc = "finished" =>
             /\ hist[idx].logout \in {"True", "False", "None"}
             /\ out[Len(out)].kind = "close"
             /\ out[Len(out)].turn = idx

(* C16: when a KeyboardInterrupt has ended the run and runTask has         *)
(* returned its code 99, every file the run had opened (log sink, shared   *)
(* or per-target output sink) is closed.                                   *)
C16_InterruptClosesSinks ==
    (pc = "interrupted" /\ ExitCode = 99) =>
        \A k \in DOMAIN files : files[k].state = "closed"

(* C17: at every point of a run at most one turn's device has its SSH     *)
(* transport open.                                                         *)
OpenTransports == { i \in Turns : transport[i] \in {"open", "openNoShell"} }

C17_OneOpenTransport == Cardinality(OpenTransports) <= 1

(* C18: in every dialogue (Device.run, login, superuser, logout of every   *)
(* class) a receive loop never follows a send directly: a time.sleep lies  *)
(* between them.  The one receive loop that starts right after a send is   *)
(* the first statement of a method, after the failed send that ended       *)
(* Device.run, and what it receives is neither tested nor written.         *)
C18_SettleDelayBeforeDrain ==
    [][ (lastOp = "send" /\ lastOp' = "drain") =>
            /\ step = 0
            /\ frame = "logout"
            /\ data' = data
            /\ drained' = << >>
            /\ out' = out ]_vars

C18_Witness ==
    /\ aDevice.class = "DeviceLinux"
    /\ frame = "superuser"
    /\ step = 4
    /\ lastOp = "drain"
    /\ Sent("su")
    /\ Contains(drained, "Password:")

(* C19: a method of the device is called only when it has not been called  *)
(* before in that turn and no later step has: connect first, login after   *)
(* connect returned True, superuser only when the activity needs it and    *)
(* login returned True, Device.run after login returned True and, when the *)
(* activity needs it, superuser returned True (and else was not called),   *)
(* logout after Device.run returned.                                       *)
CallStarts(m) == frame' = m /\ frame # m

C19_LifecycleOrder ==
    [][ LET h == hist'[idx'] IN
        /\ CallStarts("connect") => h = NoHist
        /\ CallStarts("login") =>
              /\ h.connect = "True"
              /\ h.login = "none" /\ h.superuser = "none"
              /\ h.run = "none" /\ h.logout = "none"
        /\ CallStarts("superuser") =>
              /\ activity.superuserNeeded
              /\ h.connect = "True" /\ h.login = "True"
              /\ h.superuser = "none" /\ h.run = "none" /\ h.logout = "none"
        /\ CallStarts("run") =>
              /\ h.connect = "True" /\ h.login = "True"
              /\ h.superuser =
                    IF activity.superuserNeeded THEN "True" ELSE "none"
              /\ h.run = "none" /\ h.logout = "none"
        /\ CallStarts("logout") =>
              /\ h.run \in {"True", "False"}
              /\ h.logout = "none" ]_vars

C19_Witness ==
    /\ pc = "finished"
    /\ activity.superuserNeeded
    /\ hist[idx].connect = "True"
    /\ hist[idx].login = "True"
    /\ hist[idx].superuser = "True"
    /\ hist[idx].run = "False"
    /\ hist[idx].logout = "True"

(* C20: when the run has left a turn, the log holds for each of its steps  *)
(* one failure line if the step failed and none if it did not; logout has  *)
(* failed when it returned False or None, and when close() of the          *)
(* transport raised.                                                       *)
LinesOf(i, msg) ==
    LET T(l) == l.turn = i /\ l.msg = msg IN Len(SelectSeq(log, T))

LogoutFailed(i) ==
    hist[i].logout \in {"False", "None"} \/ transport[i] = "closeFailed"

C20_OneLinePerFailedStep ==
    \A i \in Turns :
        TurnOver(i) =>
            /\ LinesOf(i, "Unable to connect to ") =
                   IF hist[i].connect = "False" THEN 1 ELSE 0
            /\ LinesOf(i, "Unable to login to ") =
                   IF hist[i].login = "False" THEN 1 ELSE 0
            /\ LinesOf(i, "Unable to superuser at ") =
                   IF hist[i].superuser = "False" THEN 1 ELSE 0
            /\ LinesOf(i, "ERROR while running the commmands") =
                   IF hist[i].run = "False" THEN 1 ELSE 0
            /\ LinesOf(i, "ERROR while logging out") =
                   IF LogoutFailed(i) THEN 1 ELSE 0

(* The marker a dialogue is about to look for in data, "" where the next   *)
(* step of the method tests nothing.                                       *)
MarkerTested ==
    CASE frame = "superuser" /\ aDevice.class = "DeviceCiscoIOS" /\ step = 4
             -> "Password:"
      [] frame = "superuser" /\ aDevice.class = "DeviceCiscoIOS" /\ step = 7
             -> "#"
      [] frame = "superuser" /\ aDevice.class = "DeviceLinux" /\ step = 4
             -> "Password:"
      [] frame = "superuser" /\ aDevice.class = "DeviceLinux" /\ step = 7
             -> "root"
      [] frame = "login" /\ aDevice.class = "DeviceCiscoWLC" /\ step = 6
             -> ">"
      [] frame = "logout" /\ aDevice.class = "DeviceCiscoWLC" /\ step = 5
             -> "save?"
      [] OTHER -> ""

(* C24: where login, superuser or logout looks for a marker, the marker is *)
(* detected exactly when it is somewhere in the text the receive loop just *)
(* before the test took off the channel, however many reads of the receive *)
(* buffer that text needed.                                                *)
C24_WholeDrainSearched ==
    MarkerTested # "" =>
        (Found(data, MarkerTested) <=> Contains(drained, MarkerTested))

(* C24: a marker is never detected in text of an earlier receive loop.     *)
C24_NoEarlierDrain ==
    (MarkerTested # "" /\ Found(data, MarkerTested)) =>
        Contains(drained, MarkerTested)

(* The sink holds an item of this kind written in the current turn. *)
Written(kind) == \E k \in DOMAIN out : out[k].kind = kind /\ out[k].turn = idx

(* C25: in a turn that reaches the command phase Device.run is called with *)
(* the opening delimiter written, logout is called with the closing        *)
(* delimiter written, and the "Finished commands at" line is logged with   *)
(* logout returned, the closing delimiter written and the per-target file  *)
(* closed.                                                                 *)
C25_EventOrder ==
    /\ pc = "run" => Written("open") /\ ~Written("close")
    /\ pc = "logout" =>
           /\ Written("open")
           /\ Written("close")
           /\ hist[idx].run # "none"
    /\ pc = "finished" =>
           /\ Written("close")
           /\ hist[idx].logout # "none"
           /\ ~activity.singleFile =>
                  \A f \in FilesOfTurn(idx) : files[f].state = "closed"

(* C25: the order of the code: the closing delimiter is written only when  *)
(* logout has returned.                                                    *)
C25_OrderAsCoded ==
    /\ pc = "run" => Written("open") /\ ~Written("close")
    /\ pc = "logout" =>
           /\ Written("open")
           /\ ~Written("close")
           /\ hist[idx].run # "none"
    /\ pc = "finished" =>
           /\ Written("close")
           /\ hist[idx].logout # "none"
           /\ ~activity.singleFile =>
                  \A f \in FilesOfTurn(idx) : files[f].state = "closed"

(* C26: DeviceCiscoIOS.login ends by returning, never by raising; it       *)
(* returns True only with "terminal length 0" sent, and exactly when the   *)
(* channel accepted that text; a send that raised or that was accepted     *)
(* with zero bytes makes it return False.                                  *)
C26_VendorALogin ==
    [][ ( /\ frame = "login"
          /\ aDevice.class = "DeviceCiscoIOS"
          /\ frame' # "login"
          /\ pc' # "interrupted" ) =>
            /\ frame' = "return"
            /\ ret' \in {"True", "False"}
            /\ ret' = "True" <=> (step = 2 /\ lastSend = "ok")
            /\ ret' = "True" => Sent("terminal length 0")' ]_vars

(* C26: what holds of the code: True is returned only after the sleep that *)
(* follows the send, whether or not the channel accepted the text.         *)
C26_VendorALoginAsCoded ==
    [][ ( /\ frame = "login"
          /\ aDevice.class = "DeviceCiscoIOS"
          /\ frame' # "login"
          /\ pc' # "interrupted" ) =>
            /\ frame' = "return" =>
                   /\ ret' \in {"True", "False"}
                   /\ ret' = "True" <=> (step = 2 /\ lastSend \in {"ok", "zero"})
                   /\ ret' = "True" => Sent("terminal length 0")'
            /\ frame' = "raise" => exc' = "UnicodeDecodeError" /\ step = 0 ]_vars

(* In this turn text a was handed to RemoteShell.send before text b. *)
SentBefore(a, b) ==
    \E i, j \in DOMAIN sent : i < j /\ sent[i].text = a /\ sent[j].text = b

(* C27: when DeviceCiscoWLC.logout has returned True, "end" and "exit"     *)
(* were sent in this order, "No" was sent exactly when the text received   *)
(* after "exit" holds "save?", after "exit", and the transport is closed   *)
(* (or its close was attempted) in both cases.                             *)
C27_VendorBLogout ==
    ( /\ pc = "logout"
      /\ aDevice.class = "DeviceCiscoWLC"
      /\ frame = "return"
      /\ ret = "True" ) =>
        /\ SentBefore("end", "exit")
        /\ Sent("No") <=> Contains(drained, "save?")
        /\ Sent("No") => SentBefore("exit", "No")
        /\ transport[idx] # "open"

(* C27: "No" is never sent when "save?" was not received, and it is sent   *)
(* exactly when the last read of the receive loop holds "save?".           *)
C27_VendorBLogoutAsCoded ==
    ( /\ pc = "logout"
      /\ aDevice.class = "DeviceCiscoWLC"
      /\ frame = "return"
      /\ ret = "True" ) =>
        /\ SentBefore("end", "exit")
        /\ Sent("No") => Contains(drained, "save?")
        /\ Sent("No") <=> Found(data, "save?")
        /\ Sent("No") => SentBefore("exit", "No")
        /\ transport[idx] # "open"

(* C30: for every plaintext and every key, decrypting with the key what    *)
(* xor_crypt_string made of the plaintext with that key gives the          *)
(* plaintext back.                                                         *)
C30_CodecReversible ==
    (pc = "codec" /\ codec.stage = "decrypted") =>
        codec.decrypted = codec.plaintext

(* C30: the round trip does give the plaintext back when the key is not    *)
(* empty and every xor of a plaintext character with its key character is  *)
(* below 128, so that UTF-8 encodes it in one byte.                        *)
C30_CodecReversibleInAscii ==
    ( /\ pc = "codec"
      /\ codec.stage = "decrypted"
      /\ codec.key # << >>
      /\ \A i \in DOMAIN codec.plaintext :
             XorZip(codec.plaintext, codec.key)[i] < 128 ) =>
        codec.decrypted = codec.plaintext

(* C29: loadFromJSON of a file writeToJSON wrote returns True, and the     *)
(* Activity it filled has the name, user, password, escalation flag and    *)
(* password, device type, targets, commands, outputDir, singleFile and     *)
(* logDir of the Activity that was written.                                *)
C29_JSONRoundTrip ==
    /\ pc # "loadRaised"
    /\ pc = "loaded" =>
         /\ activity.name = original.name
         /\ activity.user = original.user
         /\ activity.password = original.password
         /\ activity.superuserNeeded = original.superuserNeeded
         /\ activity.superuserPassword = original.superuserPassword
         /\ activity.deviceType = original.deviceType
         /\ activity.targets = original.targets
         /\ activity.commands = original.commands
         /\ activity.outputDir = original.outputDir
         /\ activity.singleFile = original.singleFile
         /\ activity.logDir = original.logDir

(* The codec gives text back when encrypted with key. *)
CodecRestores(text, key) ==
    xor_decrypt_string(xor_crypt_string(text, key), key) = text

(* C29: what the round trip does restore, field by field.                  *)
C29_JSONRoundTripAsCoded ==
    /\ pc # "loadRaised"
    /\ pc = "loaded" =>
         LET o == original
             typed == o.deviceType # ""
             dir == typed /\ o.outputDir # ""
         IN
         /\ activity.name = o.name
         /\ activity.user = o.user
         /\ activity.targets = o.targets
         /\ activity.commands = o.commands
         /\ activity.deviceType = o.deviceType
         /\ activity.superuserNeeded = o.superuserNeeded
         /\ activity.password = o.password <=> CodecRestores(o.password, o.user)
         /\ activity.superuserPassword = o.superuserPassword <=>
                IF o.superuserNeeded
                THEN CodecRestores(o.superuserPassword, o.user)
                ELSE o.superuserPassword = << >>
         /\ activity.outputDir = o.outputDir <=> (typed \/ o.outputDir = "")
         /\ activity.singleFile = o.singleFile <=> (dir \/ ~o.singleFile)
         /\ activity.logDir = o.logDir <=>
                ((dir /\ o.singleFile) \/ o.logDir = "")

(* C29: the case the claim names: a log directory set while the device    *)
(* type is empty is restored.                                              *)
C29_LogDirWithoutType ==
    ( /\ pc = "loaded"
      /\ original.logDir # ""
      /\ original.deviceType = "" ) =>
        activity.logDir = original.logDir

(* runTask has ended without calling run(). *)
TaskRefused ==
    pc \in {"return9", "return11", "return12", "return13", "loadRaised"}

(* C22: run() executes only on an Activity with a name, a target, a        *)
(* command and a device type that is empty or known; when the file cannot  *)
(* be loaded or check() rejects it, runTask returns a code other than 0    *)
(* and connect was attempted on no target.                                 *)
C22_RunOnlyAfterLoadAndCheck ==
    /\ (Running \/ pc \in {"done", "aborted", "interrupted"}) =>
           /\ activity.name # << >>
           /\ activity.targets # << >>
           /\ activity.commands # << >>
           /\ activity.deviceType \in DeviceTypes
    /\ TaskRefused =>
           /\ ExitCode \in {9, 11, 12, 13}
           /\ \A i \in DOMAIN hist : hist[i].connect = "none"
           /\ aDevice.class = "none"

(* C22: the half that holds: run() never executes on an Activity that      *)
(* check() would reject, and a refused task attempts no connect.           *)
C22_RunOnlyOnChecked ==
    /\ (Running \/ pc \in {"done", "aborted", "interrupted"}) =>
           /\ activity.name # << >>
           /\ activity.targets # << >>
           /\ activity.commands # << >>
           /\ activity.deviceType \in DeviceTypes
           /\ check(activity, TRUE) = ""
    /\ TaskRefused =>
           /\ pc # "loadRaised" => ExitCode \in {9, 11, 12, 13}
           /\ pc = "loadRaised" =>
                  exc \in {"KeyError", "AttributeError", "TypeError"}
           /\ \A i \in DOMAIN hist : hist[i].connect = "none"
           /\ aDevice.class = "none"

(* The class createDevice is documented to build for a tag of the list. *)
VariantOf(tag) ==
    CASE tag = "ciscoios" -> "DeviceCiscoIOS"
      [] tag = "ciscowlc" -> "DeviceCiscoWLC"
      [] tag = "linux" -> "DeviceLinux"
      [] tag = "" -> "Device"

(* C28: createDevice builds DeviceCiscoIOS, DeviceCiscoWLC and DeviceLinux *)
(* for "ciscoios", "ciscowlc" and "linux" and Device for the empty tag; a  *)
(* tag check() accepts gets the variant of that tag; a tag for which       *)
(* createDevice builds another class than Device is accepted by check().   *)
C28_VariantSelection ==
    pc = "created" =>
        /\ activity.deviceType \in DeviceTypes =>
               aDevice.class = VariantOf(activity.deviceType)
        /\ exc = "" =>
               /\ activity.deviceType \in DeviceTypes
               /\ aDevice.class = VariantOf(activity.deviceType)
        /\ aDevice.class # "Device" => exc # "Invalid device type "

(* C28: without its last part: the four tags select their variants and    *)
(* what check() accepts is one of the four.                                *)
C28_AcceptedTagsSelectTheirVariant ==
    pc = "created" =>
        /\ activity.deviceType \in DeviceTypes =>
               aDevice.class = VariantOf(activity.deviceType)
        /\ exc = "" =>
               /\ activity.deviceType \in DeviceTypes
               /\ aDevice.class = VariantOf(activity.deviceType)

(* The files the second call of run() opened. *)
FilesOfSecond == SubSeq(files, Len(first.files) + 1, Len(files))

(* C21: run() called twice on one Activity whose targets are all           *)
(* unreachable: when both calls have returned, the second logged the lines *)
(* of the first in the same order, attempted connect on the same targets   *)
(* with the same results, opened as many sinks of the same kinds and       *)
(* closed each once, and wrote nothing to the output sink; while the       *)
(* second call executes it writes to sinks it opened itself, never to a    *)
(* handle of the first, and the lists are the same.                        *)
C21_SecondRunLikeFirst ==
    first.ended = "done" =>
        /\ Running /\ pc # "start" /\ activity.logDir # "" =>
               logFile > Len(first.files) /\ files[logFile].state = "open"
        /\ pc = "loop" /\ activity.singleFile /\ activity.outputDir # "" =>
               outputFile > Len(first.files)
        /\ \A k \in DOMAIN first.files : files[k] = first.files[k]
        /\ pc = "done" =>
               /\ log = first.log \o first.log
               /\ hist = first.hist
               /\ \A i \in Turns : hist[i].connect = "False"
               /\ FilesOfSecond = first.files
               /\ \A k \in DOMAIN files :
                      files[k].state = "closed" /\ files[k].closes = 1
               /\ out = << >>

C21_Witness ==
    /\ first.ended = "done"
    /\ pc = "done"
    /\ Len(activity.targets) = MaxTargets
    /\ activity.logDir # ""
    /\ activity.singleFile
    /\ activity.outputDir # ""
    /\ Len(files) = 2 * Len(first.files)
    /\ Len(first.files) > 1
    /\ Len(log) = 2 * (Len(activity.targets) + 2)

(* run() has logged "Finished activity" and "END" and closed every file    *)
(* it opened.                                                              *)
FinishedAndClosed ==
    /\ \E k \in DOMAIN log : log[k].msg = "Finished activity"
    /\ \E k \in DOMAIN log : log[k].msg = "END"
    /\ \A f \in DOMAIN files : files[f].state = "closed"

(* C23: every run that is not interrupted eventually logs the two lines    *)
(* that end a run and has its shared output file and its log file closed,  *)
(* whatever happened at its targets.                                       *)
C23_RunEventuallyFinishes == <>(pc = "done" /\ FinishedAndClosed)

(* C23: every run that is not interrupted does end: by returning, with the *)
(* lines logged and the files closed, or by the exception that left it.    *)
C23_RunEventuallyEnds ==
    <>((pc = "done" /\ FinishedAndClosed) \/ (pc = "aborted" /\ exc # "none"))

(* Handle h is a file of fs that is open, and in per-target mode an output *)
(* file opened in the current turn.                                        *)
SinkOpen(fs, h) ==
    /\ h \in DOMAIN fs
    /\ fs[h].state = "open"
    /\ (fs[h].kind = "out" /\ ~activity.singleFile) => fs[h].turn = idx

(* C31: every text run() or Device.run writes goes to a sink that is open  *)
(* at that moment: to the process stream when no directory is set, else    *)
(* to a file that run() has opened, for the current turn in per-target     *)
(* mode, and has not closed; when run() has returned every file it opened  *)
(* is closed, each once; close is only ever called on a file, never on the *)
(* process streams.                                                        *)
C31_SinkLifecycle ==
    /\ [][ /\ \A k \in (Len(out) + 1)..Len(out') :
                LET h == out'[k].sink IN
                IF activity.outputDir = ""
                THEN h = StdOut
                ELSE SinkOpen(files, h) \/ SinkOpen(files', h)
           /\ Len(log') > Len(log) =>
                IF activity.logDir = ""
                THEN logFile = StdErr
                ELSE SinkOpen(files, logFile)
           /\ \A k \in DOMAIN files :
                /\ files'[k].kind = files[k].kind
                /\ files'[k].closes >= files[k].closes
                /\ files[k].state = "closed" => files'[k].state = "closed" ]_vars
    /\ [](pc = "done" =>
            \A k \in DOMAIN files :
                files[k].state = "closed" /\ files[k].closes = 1)
    /\ []((activity.logDir # "" /\ pc \in {"openShared", "loop", "done"}) =>
            logFile \in DOMAIN files)
    /\ []((activity.outputDir # "" /\ activity.singleFile /\ pc \in {"loop", "done"}) =>
            outputFile \in DOMAIN files)
    /\ []((activity.outputDir # "" /\ ~activity.singleFile /\ pc = "logout") =>
            outputFile \in DOMAIN files)

C31_Witness ==
    /\ pc = "done"
    /\ PerTargetFiles
    /\ activity.logDir # ""
    /\ \A i \in Turns : ReachedCommandPhase(i) /\ Cardinality(FilesOfTurn(i)) = 1
    /\ Len(activity.targets) > 1
    /\ \E k \in DOMAIN out : out[k].kind = "data"
    /\ \A k \in DOMAIN files : files[k].state = "closed" /\ files[k].closes = 1

(* C31: the same end of a run with one shared output file. *)
C31_WitnessShared ==
    /\ pc = "done"
    /\ activity.singleFile
    /\ activity.outputDir # ""
    /\ activity.logDir = ""
    /\ \E i \in Turns : ReachedCommandPhase(i)
    /\ Len(files) = 1
    /\ files[1].closes = 1

====
